---- MODULE Spec2Model ----
(***************************************************************************)
(* Model of signaltest.py: the signal evaluator (evaluate_signals), the    *)
(* bar-by-bar backtest (run_simulation) and the per-ticker loop of main.   *)
(*                                                                         *)
(* Prices and cash are whole numbers of one currency unit, so that         *)
(* cash // close_price is integer floor division.  Positions in a series   *)
(* are 1-based (pandas position p is position p + 1 here) and 0 stands for *)
(* Python's None where a position is expected.                             *)
(***************************************************************************)
EXTENDS Integers, Sequences, FiniteSets, TLC

\* ------------------------------------------------------------------ bounds
\* The longest bar series of a direct call of run_simulation.
MaxBars == 3
\* Close prices are 1..MaxPrice.
MaxPrice == 2
\* The initial_cash of a direct call is 0..MaxCash.
MaxCash == 3
\* Defined indicator values are 0..MaxInd.
MaxInd == 1
\* tickers.csv holds 0..MaxTickers tickers.
MaxTickers == 2
\* The longest series download_stock_data gives main.
MainBars == 2
\* main's close prices are PriceUnit * (1..MaxPrice).
PriceUnit == 60000

\* ------------------------------------------------------------------ values
\* The not-a-number an indicator holds during its warm-up window.
NaN == 0 - 1

\* Python's None (last_action before any trade).
None == "None"

IndVals == {NaN} \cup (0 .. MaxInd)

\* pandas' elementwise a > b on float columns: False when either side is NaN.
GtNaNTrue(a, b) == ~(a # NaN /\ b # NaN /\ a <= b)
Gt(a, b) == a # NaN /\ b # NaN /\ a > b

\* pandas' elementwise a < b on float columns: False when either side is NaN.
Lt(a, b) == a # NaN /\ b # NaN /\ a < b

\* One row of the four indicator columns evaluate_signals reads.
AllRows == [PLUS_DI : IndVals, MINUS_DI : IndVals, MACD : IndVals, MACDSignal : IndVals]

\* evaluate_signals, line 28, for one row.
BuyConditionOf(r) == Gt(r.PLUS_DI, r.MINUS_DI) /\ Gt(r.MACD, r.MACDSignal)

\* evaluate_signals, line 29, for one row.
SellConditionCopied(r) == Gt(r.PLUS_DI, r.MINUS_DI) /\ Gt(r.MACD, r.MACDSignal)
SellConditionOf(r) == Gt(r.MINUS_DI, r.PLUS_DI) /\ Lt(r.MACD, r.MACDSignal)

HasNaN(r) == NaN \in {r.PLUS_DI, r.MINUS_DI, r.MACD, r.MACDSignal}

\* The indicator rows a simulated series is drawn from: one row for each way
\* the start-index lookup and the loop can see a bar (AllRows holds every row
\* the evaluator can see).
Row(p, m, c, s) == [PLUS_DI |-> p, MINUS_DI |-> m, MACD |-> c, MACDSignal |-> s]
SimRows ==
    { Row(NaN, NaN, NaN, NaN),   \* every indicator still warming up
      Row(NaN, 0, 1, 0),         \* PLUS_DI alone undefined
      Row(1, 0, NaN, NaN),       \* DI defined, MACD still warming up
      Row(1, 0, 1, 0),           \* buy
      Row(0, 1, 0, 1) }          \* sell

Prices == 1 .. MaxPrice

VARIABLES
    data,               \* the DataFrame: a record of columns (sequences)
    initial_cash,       \* run_simulation's argument
    cash, stock_quantity, transactions, last_action,
    total_trades, successful_trades, last_buy_price,
    start_index,        \* position of the first simulated bar (0: not computed)
    i,                  \* loop position of run_simulation
    pc,                 \* "evaluate", "call", "loop", "returned", "raised"
    run,                \* which call of run_simulation on this data: 1 or 2
    first,              \* what the first call gave, once a second is made
    number_of_tickers,  \* main: len(tickers); ticker k is the k-th of the list
    t,                  \* main: position of the for loop in tickers
    mpc,                \* main: "loop", "indicators", "returns", "plot", "done", "crashed"
    cur,                \* main: what run_simulation returned for ticker t
    total_portfolio_value, total_trades_all, successful_trades_all,
    individual_stock_return,   \* main: ticker -> stock_return_percent
    transactions_dict,  \* main: the tickers holding a journal (its keys)
    skipped,            \* main: the tickers a "Skipping." line was printed for
    summary             \* main: the figures printed by lines 152-156

simvars == <<data, initial_cash, cash, stock_quantity, transactions, last_action,
             total_trades, successful_trades, last_buy_price, start_index, i, pc>>

simvarsButPc == <<data, initial_cash, cash, stock_quantity, transactions, last_action,
                  total_trades, successful_trades, last_buy_price, start_index, i>>

mainvars == <<number_of_tickers, t, mpc, cur, total_portfolio_value, total_trades_all,
              successful_trades_all, individual_stock_return, transactions_dict,
              skipped, summary>>

vars == <<simvars, run, first, mainvars>>

\* ------------------------------------------------------------ the DataFrame
\* data after download_stock_data, calculate_indicators and initialize_columns:
\* Buy_Signal, Sell_Signal and Portfolio_Value are 0, the condition columns do
\* not exist yet (empty).
Frame(n, close, rows) ==
    [ Close           |-> [k \in 1 .. n |-> close[k]],
      PLUS_DI         |-> [k \in 1 .. n |-> rows[k].PLUS_DI],
      MINUS_DI        |-> [k \in 1 .. n |-> rows[k].MINUS_DI],
      MACD            |-> [k \in 1 .. n |-> rows[k].MACD],
      MACDSignal      |-> [k \in 1 .. n |-> rows[k].MACDSignal],
      Buy_Signal      |-> [k \in 1 .. n |-> 0],
      Sell_Signal     |-> [k \in 1 .. n |-> 0],
      Portfolio_Value |-> [k \in 1 .. n |-> 0],
      Buy_Condition   |-> << >>,
      Sell_Condition  |-> << >> ]

RowAt(d, k) == Row(d.PLUS_DI[k], d.MINUS_DI[k], d.MACD[k], d.MACDSignal[k])

\* evaluate_signals: both condition columns, for every bar.
EvaluateSignals(d) ==
    [d EXCEPT !.Buy_Condition  = [k \in 1 .. Len(d.Close) |-> BuyConditionOf(RowAt(d, k))],
              !.Sell_Condition = [k \in 1 .. Len(d.Close) |-> SellConditionOf(RowAt(d, k))]]

\* Series.first_valid_index(): the first position holding a non-NaN value,
\* None (0) when there is none.
FirstValidIndex(col) ==
    IF \E k \in 1 .. Len(col) : col[k] # NaN
    THEN CHOOSE k \in 1 .. Len(col) : col[k] # NaN /\ \A j \in 1 .. k - 1 : col[j] = NaN
    ELSE 0

MaxTakesEarlier(a, b) == IF a >= b THEN b ELSE a
Max(a, b) == IF a >= b THEN a ELSE b

\* Line 41 raises TypeError when either first_valid_index() is None:
\* max() cannot order None.
StartRaises(d) == FirstValidIndex(d.MINUS_DI) = 0 \/ FirstValidIndex(d.PLUS_DI) = 0

\* Lines 41-43: the later of the two first valid positions.
StartIndex(d) == Max(FirstValidIndex(d.MINUS_DI), FirstValidIndex(d.PLUS_DI))

\* ------------------------------------------------------------ the loop body
\* Line 48.
BuyGuardNoDebounce(d, k, c, la) == d.Buy_Condition[k] /\ c > 0
BuyGuard(d, k, c, la) == d.Buy_Condition[k] /\ c > 0 /\ la # "Buy"

\* Line 56 (reached only when the buy guard is false: elif).
SellGuard(d, k, q, la) == d.Sell_Condition[k] /\ q > 0 /\ la # "Sell"

\* Line 49: cash // close_price.
BuyQuantityOneShare(c, price) == IF c >= price THEN 1 ELSE 0
BuyQuantityCeil(c, price) == (c + price - 1) \div price
BuyQuantity(c, price) == c \div price

\* Line 67.
PortfolioValueStale(c, q, price) == c
PortfolioValue(c, q, price) == c + q * price

\* The row appended to transactions (lines 51 and 58).
TxnValueIsCash(k, action, price, q, c, pv) ==
    [Date |-> k, Action |-> action, Price |-> price, Quantity |-> q, Cash |-> c,
     Portfolio_Value |-> c]
Txn(k, action, price, q, c, pv) ==
    [Date |-> k, Action |-> action, Price |-> price, Quantity |-> q, Cash |-> c,
     Portfolio_Value |-> pv]

\* last_action at function entry, line 35.
StaleLastAction == last_action
FreshLastAction == None

\* run_simulation's locals and the frame it writes to, as one record; Enter is
\* lines 32-38.
Enter(d, ic) ==
    [ data |-> d, cash |-> ic, stock_quantity |-> 0, transactions |-> << >>,
      last_action |-> FreshLastAction, total_trades |-> 0, successful_trades |-> 0,
      last_buy_price |-> 0 ]

\* Line 67: data.at[index[k], 'Portfolio_Value'] = cash + stock_quantity * close_price.
RecordValue(s, k) ==
    [s EXCEPT !.data.Portfolio_Value[k] =
                  PortfolioValue(s.cash, s.stock_quantity, s.data.Close[k])]

\* Lines 49-54, then line 67.
BuyStep(s, k) ==
    LET close_price == s.data.Close[k]
        q == BuyQuantity(s.cash, close_price)
        c == s.cash - q * close_price
    IN RecordValue([s EXCEPT !.stock_quantity = q,
                             !.cash = c,
                             !.transactions = Append(@, Txn(k, "Buy", close_price, q, c,
                                                            c + q * close_price)),
                             !.data.Buy_Signal[k] = 1,
                             !.last_action = "Buy",
                             !.last_buy_price = close_price], k)

\* Lines 57-65, then line 67.
SellStepCountsEqual(s, k) ==
    LET close_price == s.data.Close[k]
        c == s.cash + s.stock_quantity * close_price
    IN RecordValue([s EXCEPT !.cash = c,
                             !.transactions = Append(@, Txn(k, "Sell", close_price, 0, c, c)),
                             !.stock_quantity = 0,
                             !.data.Sell_Signal[k] = 1,
                             !.last_action = "Sell",
                             !.total_trades = @ + 1,
                             !.successful_trades =
                                 IF close_price >= s.last_buy_price THEN @ + 1 ELSE @], k)
SellStep(s, k) ==
    LET close_price == s.data.Close[k]
        c == s.cash + s.stock_quantity * close_price
    IN RecordValue([s EXCEPT !.cash = c,
                             !.transactions = Append(@, Txn(k, "Sell", close_price, 0, c, c)),
                             !.stock_quantity = 0,
                             !.data.Sell_Signal[k] = 1,
                             !.last_action = "Sell",
                             !.total_trades = @ + 1,
                             !.successful_trades =
                                 IF close_price > s.last_buy_price THEN @ + 1 ELSE @], k)

\* Neither branch: line 67 alone.
IdleStepClearsLastAction(s, k) == RecordValue([s EXCEPT !.last_action = None], k)
IdleStep(s, k) == RecordValue(s, k)

\* The locals and the frame of the running call.
Locals ==
    [ data |-> data, cash |-> cash, stock_quantity |-> stock_quantity,
      transactions |-> transactions, last_action |-> last_action,
      total_trades |-> total_trades, successful_trades |-> successful_trades,
      last_buy_price |-> last_buy_price ]

Update(s) ==
    /\ data' = s.data
    /\ cash' = s.cash
    /\ stock_quantity' = s.stock_quantity
    /\ transactions' = s.transactions
    /\ last_action' = s.last_action
    /\ total_trades' = s.total_trades
    /\ successful_trades' = s.successful_trades
    /\ last_buy_price' = s.last_buy_price

\* ------------------------------------------------------------------ main
\* Line 101 (and line 113, the initial_cash of every ticker's run).
initial_investment_per_stock == 100000

\* A figure main computes by a float division, kept as the exact fraction
\* num / den, or as what numpy gives for a zero divisor: inf, -inf, nan.
Num(n, d) == [kind |-> "num", num |-> n, den |-> d]
NanRet == [kind |-> "nan", num |-> 0, den |-> 0]
InfRet == [kind |-> "inf", num |-> 0, den |-> 0]
NegInfRet == [kind |-> "-inf", num |-> 0, den |-> 0]
Absent == [kind |-> "absent", num |-> 0, den |-> 0]

\* No run_simulation result at hand.
NoResult ==
    [outcome |-> "none", transactions |-> << >>, total_trades |-> 0,
     successful_trades |-> 0, Portfolio_Value |-> << >>]

\* Nothing printed yet.
NoSummary ==
    [printed |-> FALSE, total_portfolio_value |-> 0, total_return_percent |-> Absent,
     total_trades |-> 0, success_rate |-> Absent]

\* main is not running (the states of a direct call of run_simulation).
MainIdle ==
    /\ number_of_tickers = 0
    /\ t = 0
    /\ mpc = "off"
    /\ cur = NoResult
    /\ total_portfolio_value = 0
    /\ total_trades_all = 0
    /\ successful_trades_all = 0
    /\ individual_stock_return = << >>
    /\ transactions_dict = {}
    /\ skipped = {}
    /\ summary = NoSummary

\* ------------------------------------------------------------------ actions
Init ==
    /\ \E n \in 1 .. MaxBars :
         \E close \in [1 .. n -> Prices], rows \in [1 .. n -> SimRows] :
            data = Frame(n, close, rows)
    /\ initial_cash \in 0 .. MaxCash
    /\ cash = 0
    /\ stock_quantity = 0
    /\ transactions = << >>
    /\ last_action = None
    /\ total_trades = 0
    /\ successful_trades = 0
    /\ last_buy_price = 0
    /\ start_index = 0
    /\ i = 0
    /\ pc = "evaluate"
    /\ run = 1
    /\ first = None
    /\ MainIdle

\* main, line 122.
evaluate_signals ==
    /\ pc = "evaluate"
    /\ data' = EvaluateSignals(data)
    /\ pc' = "call"
    /\ UNCHANGED <<initial_cash, cash, stock_quantity, transactions, last_action,
                   total_trades, successful_trades, last_buy_price, start_index, i,
                   run, first, mainvars>>

\* run_simulation, lines 32-43, when the start index exists.
run_simulation_enter ==
    /\ pc = "call"
    /\ ~StartRaises(data)
    /\ Update(Enter(data, initial_cash))
    /\ start_index' = StartIndex(data)
    /\ i' = StartIndex(data)
    /\ pc' = "loop"
    /\ UNCHANGED <<initial_cash, run, first, mainvars>>

\* run_simulation, lines 32-41, when a DI column has no valid value: TypeError.
run_simulation_raise ==
    /\ pc = "call"
    /\ StartRaises(data)
    /\ Update(Enter(data, initial_cash))
    /\ pc' = "raised"
    /\ UNCHANGED <<initial_cash, start_index, i, run, first, mainvars>>

\* One iteration of the loop (lines 45-67) taking the buy branch.
BuyBar ==
    /\ pc = "loop"
    /\ i <= Len(data.Close)
    /\ BuyGuard(data, i, cash, last_action)
    /\ Update(BuyStep(Locals, i))
    /\ i' = i + 1
    /\ UNCHANGED <<initial_cash, start_index, pc, run, first, mainvars>>

\* One iteration of the loop taking the sell branch (elif).
SellBar ==
    /\ pc = "loop"
    /\ i <= Len(data.Close)
    /\ ~BuyGuard(data, i, cash, last_action)
    /\ SellGuard(data, i, stock_quantity, last_action)
    /\ Update(SellStep(Locals, i))
    /\ i' = i + 1
    /\ UNCHANGED <<initial_cash, start_index, pc, run, first, mainvars>>

\* One iteration of the loop taking neither branch.
IdleBar ==
    /\ pc = "loop"
    /\ i <= Len(data.Close)
    /\ ~BuyGuard(data, i, cash, last_action)
    /\ ~SellGuard(data, i, stock_quantity, last_action)
    /\ Update(IdleStep(Locals, i))
    /\ i' = i + 1
    /\ UNCHANGED <<initial_cash, start_index, pc, run, first, mainvars>>

\* Line 69: the loop is over, the journal and the two counters are returned.
run_simulation_return ==
    /\ pc = "loop"
    /\ i > Len(data.Close)
    /\ pc' = "returned"
    /\ UNCHANGED <<data, initial_cash, cash, stock_quantity, transactions, last_action,
                   total_trades, successful_trades, last_buy_price, start_index, i,
                   run, first, mainvars>>

Next ==
    \/ evaluate_signals
    \/ run_simulation_enter
    \/ run_simulation_raise
    \/ BuyBar
    \/ SellBar
    \/ IdleBar
    \/ run_simulation_return

Spec == Init /\ [][Next]_vars

\* --------------------------------------------------------------- properties
Bars == 1 .. Len(data.Close)

\* The bars the running (or finished) call has already processed.
Processed == IF pc \in {"loop", "returned"} THEN start_index .. (i - 1) ELSE {}

\* The journal rows recorded at bar k.
TxnsAt(k) == { j \in 1 .. Len(transactions) : transactions[j].Date = k }

\* The journal rows recorded at bar k or before it.
TxnsUpTo(k) == { j \in 1 .. Len(transactions) : transactions[j].Date <= k }

LastUpTo(k) == CHOOSE j \in TxnsUpTo(k) : \A l \in TxnsUpTo(k) : l <= j

\* Cash and quantity after bar k's buy/sell step, read off the journal: those
\* of the latest transaction at or before k, the initial ones when there is none.
CashAfter(k) == IF TxnsUpTo(k) = {} THEN initial_cash ELSE transactions[LastUpTo(k)].Cash
QuantityAfter(k) == IF TxnsUpTo(k) = {} THEN 0 ELSE transactions[LastUpTo(k)].Quantity

\* C1: in the journal no two consecutive transactions are both Buy and no two
\* consecutive transactions are both Sell, whatever the bars and the initial
\* cash, also when a condition stays true over consecutive bars.
C1_Alternation ==
    \A j \in 1 .. Len(transactions) - 1 :
        transactions[j].Action # transactions[j + 1].Action

\* A finished run that bought once with cash left over and then saw the buy
\* condition again on the very next bar.
C1_Witness ==
    /\ pc = "returned"
    /\ Len(transactions) = 1
    /\ cash > 0
    /\ stock_quantity > 0
    /\ \E k \in Bars : /\ k + 1 \in Bars
                       /\ transactions[1].Date = k
                       /\ data.Buy_Condition[k]
                       /\ data.Buy_Condition[k + 1]

\* C2 (as claimed): at a bar where the buy guard holds but cash buys no whole
\* share (cash // close_price = 0), the step appends no transaction and leaves
\* cash, quantity, last_action and last_buy_price as they were.
C2_DeclinesUnaffordableBuy ==
    [][ ( /\ pc = "loop"
          /\ i <= Len(data.Close)
          /\ BuyGuard(data, i, cash, last_action)
          /\ cash \div data.Close[i] = 0 )
        => /\ transactions' = transactions
           /\ cash' = cash
           /\ stock_quantity' = stock_quantity
           /\ last_action' = last_action
           /\ last_buy_price' = last_buy_price ]_vars

\* C3: with initial_cash >= 0 and positive close prices, cash >= 0 and
\* stock_quantity >= 0 in every state of the run, so after every bar.
C3_NonNegative == cash >= 0 /\ stock_quantity >= 0

\* A run that bought, sold and bought again, holding shares and cash.
C3_Witness ==
    /\ pc \in {"loop", "returned"}
    /\ Len(transactions) = 3
    /\ stock_quantity > 0
    /\ cash > 0

\* No row of indicator values, NaN included, makes both conditions true.
ExclusiveOnAllRows == \A r \in AllRows : ~(BuyConditionOf(r) /\ SellConditionOf(r))

\* C4: evaluate_signals never makes Buy_Condition and Sell_Condition both true:
\* for no row of indicator values (NaN included), and at no bar of an
\* evaluated frame.
C4_MutuallyExclusive ==
    /\ ExclusiveOnAllRows
    /\ pc # "evaluate" =>
          \A k \in Bars : ~(data.Buy_Condition[k] /\ data.Sell_Condition[k])

\* An evaluated frame with a bar whose buy condition is true and a bar whose
\* sell condition is true.
C4_Witness ==
    /\ pc # "evaluate"
    /\ \E k \in Bars : data.Buy_Condition[k]
    /\ \E k \in Bars : data.Sell_Condition[k]

\* Every row of indicator values with a NaN in it makes both conditions false.
FalseOnUndefinedRows ==
    \A r \in AllRows : HasNaN(r) => ~BuyConditionOf(r) /\ ~SellConditionOf(r)

\* C5: a row with any of PLUS_DI, MINUS_DI, MACD, MACDSignal undefined (NaN)
\* gets both conditions false, and run_simulation records no transaction at
\* such a bar.
C5_UndefinedNeverTriggers ==
    /\ FalseOnUndefinedRows
    /\ pc # "evaluate" =>
          \A k \in Bars :
              HasNaN(RowAt(data, k)) =>
                  /\ ~data.Buy_Condition[k]
                  /\ ~data.Sell_Condition[k]
                  /\ TxnsAt(k) = {}

\* A finished run that traded, and processed a bar whose DI values are defined
\* and favour a buy while MACD is still undefined.
C5_Witness ==
    /\ pc = "returned"
    /\ transactions # << >>
    /\ \E k \in Processed :
          /\ HasNaN(RowAt(data, k))
          /\ Gt(data.PLUS_DI[k], data.MINUS_DI[k])
          /\ TxnsUpTo(k) = {}

\* C6: every bar from the start index on, once processed, holds
\* Portfolio_Value = cash + quantity * close with the cash and quantity that
\* hold after that bar's step, whether or not the bar traded; a returned run
\* has processed every bar up to the last.
C6_PortfolioValueEveryBar ==
    /\ \A k \in Processed :
          data.Portfolio_Value[k] = CashAfter(k) + QuantityAfter(k) * data.Close[k]
    /\ pc = "returned" => Processed = start_index .. Len(data.Close)

\* A finished run with a bar that did not trade while shares were held, at a
\* close price other than the one paid.
C6_Witness ==
    /\ pc = "returned"
    /\ \E k \in Processed :
          /\ TxnsAt(k) = {}
          /\ QuantityAfter(k) > 0
          /\ data.Close[k] # transactions[LastUpTo(k)].Price

\* C8 (as claimed): when PLUS_DI or MINUS_DI has no defined value at any bar,
\* run_simulation ends by returning an empty journal and zero counters.
C8_EmptyResultWithoutStartIndex ==
    (pc \in {"returned", "raised"} /\ StartRaises(data)) =>
        /\ pc = "returned"
        /\ transactions = << >>
        /\ total_trades = 0
        /\ successful_trades = 0

\* ------------------------------------------------- a second call, same input
\* What a call of run_simulation gives its caller: the journal, the two
\* counters, the Portfolio_Value column it wrote, and whether it raised.
Result ==
    [transactions |-> transactions, total_trades |-> total_trades,
     successful_trades |-> successful_trades,
     Portfolio_Value |-> data.Portfolio_Value, outcome |-> pc]

\* The caller keeps the first call's result and calls run_simulation again
\* with the same data and the same initial_cash.
Rerun ==
    /\ pc \in {"returned", "raised"}
    /\ run = 1
    /\ first' = Result
    /\ run' = 2
    /\ pc' = "call"
    /\ UNCHANGED <<simvarsButPc, mainvars>>

NextRerun == Next \/ Rerun

SpecRerun == Init /\ [][NextRerun]_vars

\* C7: a second call of run_simulation on the same data with the same
\* initial_cash ends with the same journal, the same total_trades and
\* successful_trades and the same Portfolio_Value column as the first.
C7_Deterministic ==
    (run = 2 /\ pc \in {"returned", "raised"}) => Result = first

\* A second call that returned a journal of a buy and a sell.
C7_Witness ==
    /\ run = 2
    /\ pc = "returned"
    /\ Len(transactions) >= 2

\* ------------------------------------------- run_simulation as one function
\* One iteration of the loop, lines 45-67.
Iteration(s, k) ==
    IF BuyGuard(s.data, k, s.cash, s.last_action) THEN BuyStep(s, k)
    ELSE IF SellGuard(s.data, k, s.stock_quantity, s.last_action) THEN SellStep(s, k)
    ELSE IdleStep(s, k)

\* for i in range(k, len(data)).
RECURSIVE Loop(_, _)
Loop(s, k) == IF k > Len(s.data.Close) THEN s ELSE Loop(Iteration(s, k), k + 1)

\* A whole call, as main sees it: what it returns (line 69) with the
\* Portfolio_Value column it wrote, or that it raised (line 41).
RunSimulation(d, ic) ==
    IF StartRaises(d)
    THEN [NoResult EXCEPT !.outcome = "raised"]
    ELSE LET s == Loop(Enter(d, ic), StartIndex(d))
         IN [outcome |-> "returned", transactions |-> s.transactions,
             total_trades |-> s.total_trades, successful_trades |-> s.successful_trades,
             Portfolio_Value |-> s.data.Portfolio_Value]

\* The state machine above and the function agree on every finished first call.
StepwiseAgrees ==
    (run = 1 /\ pc \in {"returned", "raised"}) =>
        LET r == RunSimulation([data EXCEPT !.Portfolio_Value = [k \in Bars |-> 0],
                                            !.Buy_Signal = [k \in Bars |-> 0],
                                            !.Sell_Signal = [k \in Bars |-> 0]],
                               initial_cash)
        IN /\ r.outcome = pc
           /\ pc = "returned" => r = Result

\* ------------------------------------------------------------ main's loop
MainPrices == { PriceUnit * p : p \in 1 .. MaxPrice }

\* What lines 115-123 can make of one non-empty download: every frame of up to
\* MainBars bars, evaluated and simulated with initial_cash = 100000.
RunResults ==
    UNION { { RunSimulation(EvaluateSignals(Frame(n, close, rows)),
                            initial_investment_per_stock)
              : close \in [1 .. n -> MainPrices], rows \in [1 .. n -> SimRows] }
            : n \in 1 .. MainBars }

\* Lines 140-141: the except clause prints and the for loop goes on with the
\* next ticker.
AfterExceptionPropagate(tk) == [mpc |-> "crashed", t |-> tk]
AfterException(tk) == [mpc |-> "loop", t |-> tk + 1]

Caught ==
    /\ mpc' = AfterException(t).mpc
    /\ t' = AfterException(t).t
    /\ skipped' = skipped \cup {t}
    /\ cur' = NoResult

\* a / b * 100 for two numpy floats (line 129).
PercentOf(a, b) ==
    IF b # 0 THEN Num(a * 100, b)
    ELSE IF a > 0 THEN InfRet
    ELSE IF a < 0 THEN NegInfRet
    ELSE NanRet

\* Lines 127-129.
initial_stock_value(txns) == txns[1].Price * txns[1].Quantity
final_stock_value(txns) == txns[Len(txns)].Portfolio_Value
stock_return_percent(txns) ==
    PercentOf(final_stock_value(txns) - initial_stock_value(txns), initial_stock_value(txns))

InitMain ==
    /\ data = Frame(0, << >>, << >>)
    /\ initial_cash = 0
    /\ cash = 0
    /\ stock_quantity = 0
    /\ transactions = << >>
    /\ last_action = None
    /\ total_trades = 0
    /\ successful_trades = 0
    /\ last_buy_price = 0
    /\ start_index = 0
    /\ i = 0
    /\ pc = "off"
    /\ run = 1
    /\ first = None
    /\ number_of_tickers \in 0 .. MaxTickers
    /\ t = 1
    /\ mpc = "loop"
    /\ cur = NoResult
    /\ total_portfolio_value = 0
    /\ total_trades_all = 0
    /\ successful_trades_all = 0
    /\ individual_stock_return = [k \in 1 .. number_of_tickers |-> Absent]
    /\ transactions_dict = {}
    /\ skipped = {}
    /\ summary = NoSummary

simall == <<simvars, run, first>>

\* Line 115 raises (no network, unknown ticker).
DownloadRaises ==
    /\ mpc = "loop"
    /\ t <= number_of_tickers
    /\ Caught
    /\ UNCHANGED <<simall, number_of_tickers, total_portfolio_value, total_trades_all,
                   successful_trades_all, individual_stock_return, transactions_dict,
                   summary>>

\* Lines 115-118: the download is empty; continue.
DownloadEmpty ==
    /\ mpc = "loop"
    /\ t <= number_of_tickers
    /\ skipped' = skipped \cup {t}
    /\ t' = t + 1
    /\ UNCHANGED <<simall, number_of_tickers, mpc, cur, total_portfolio_value,
                   total_trades_all, successful_trades_all, individual_stock_return,
                   transactions_dict, summary>>

\* Lines 115-116: the download holds bars.
DownloadData ==
    /\ mpc = "loop"
    /\ t <= number_of_tickers
    /\ mpc' = "indicators"
    /\ UNCHANGED <<simall, number_of_tickers, t, cur, total_portfolio_value,
                   total_trades_all, successful_trades_all, individual_stock_return,
                   transactions_dict, skipped, summary>>

\* Line 120 raises inside talib.
IndicatorsRaise ==
    /\ mpc = "indicators"
    /\ Caught
    /\ UNCHANGED <<simall, number_of_tickers, total_portfolio_value, total_trades_all,
                   successful_trades_all, individual_stock_return, transactions_dict,
                   summary>>

\* Lines 120-123 when run_simulation raises.
SimulationRaises ==
    /\ mpc = "indicators"
    /\ \E r \in RunResults : r.outcome = "raised"
    /\ Caught
    /\ UNCHANGED <<simall, number_of_tickers, total_portfolio_value, total_trades_all,
                   successful_trades_all, individual_stock_return, transactions_dict,
                   summary>>

\* Lines 120-125 when run_simulation returns.
Simulate ==
    /\ mpc = "indicators"
    /\ \E r \in RunResults :
          /\ r.outcome = "returned"
          /\ cur' = r
          /\ total_trades_all' = total_trades_all + r.total_trades
          /\ successful_trades_all' = successful_trades_all + r.successful_trades
    /\ mpc' = "returns"
    /\ UNCHANGED <<simall, number_of_tickers, t, total_portfolio_value,
                   individual_stock_return, transactions_dict, skipped, summary>>

\* Line 127 on an empty journal: .iloc[0] raises IndexError.
ReturnsIndexError ==
    /\ mpc = "returns"
    /\ cur.transactions = << >>
    /\ Caught
    /\ UNCHANGED <<simall, number_of_tickers, total_portfolio_value, total_trades_all,
                   successful_trades_all, individual_stock_return, transactions_dict,
                   summary>>

\* Lines 127-135.
Returns ==
    /\ mpc = "returns"
    /\ cur.transactions # << >>
    /\ individual_stock_return' =
           [individual_stock_return EXCEPT ![t] = stock_return_percent(cur.transactions)]
    /\ total_portfolio_value' = total_portfolio_value + final_stock_value(cur.transactions)
    /\ transactions_dict' = transactions_dict \cup {t}
    /\ mpc' = "plot"
    /\ UNCHANGED <<simall, number_of_tickers, t, cur, total_trades_all,
                   successful_trades_all, skipped, summary>>

\* Line 138 returns: the iteration is over.
Plot ==
    /\ mpc = "plot"
    /\ mpc' = "loop"
    /\ t' = t + 1
    /\ cur' = NoResult
    /\ UNCHANGED <<simall, number_of_tickers, total_portfolio_value, total_trades_all,
                   successful_trades_all, individual_stock_return, transactions_dict,
                   skipped, summary>>

\* Line 138 raises (matplotlib, the graphs folder).
PlotRaises ==
    /\ mpc = "plot"
    /\ Caught
    /\ UNCHANGED <<simall, number_of_tickers, total_portfolio_value, total_trades_all,
                   successful_trades_all, individual_stock_return, transactions_dict,
                   summary>>

\* Line 102.
initial_total_investment == initial_investment_per_stock * number_of_tickers

\* Lines 147-150.
success_rate_unguarded == Num(successful_trades_all * 100, total_trades_all)
success_rate ==
    IF total_trades_all > 0 THEN Num(successful_trades_all * 100, total_trades_all)
    ELSE Num(0, 1)

\* Lines 143-158, the loop being over.
Summary ==
    /\ mpc = "loop"
    /\ t > number_of_tickers
    /\ initial_total_investment # 0
    /\ summary' = [printed |-> TRUE,
                   total_portfolio_value |-> total_portfolio_value,
                   total_return_percent |->
                       Num((total_portfolio_value - initial_total_investment) * 100,
                           initial_total_investment),
                   total_trades |-> total_trades_all,
                   success_rate |-> success_rate]
    /\ mpc' = "done"
    /\ UNCHANGED <<simall, number_of_tickers, t, cur, total_portfolio_value,
                   total_trades_all, successful_trades_all, individual_stock_return,
                   transactions_dict, skipped>>

\* Line 153 with no ticker at all: int / 0 raises ZeroDivisionError, uncaught.
SummaryRaises ==
    /\ mpc = "loop"
    /\ t > number_of_tickers
    /\ initial_total_investment = 0
    /\ mpc' = "crashed"
    /\ UNCHANGED <<simall, number_of_tickers, t, cur, total_portfolio_value,
                   total_trades_all, successful_trades_all, individual_stock_return,
                   transactions_dict, skipped, summary>>

NextMain ==
    \/ DownloadRaises
    \/ DownloadEmpty
    \/ DownloadData
    \/ IndicatorsRaise
    \/ SimulationRaises
    \/ Simulate
    \/ ReturnsIndexError
    \/ Returns
    \/ Plot
    \/ PlotRaises
    \/ Summary
    \/ SummaryRaises

SpecMain == InitMain /\ [][NextMain]_vars

Tickers == 1 .. number_of_tickers

\* C9: a failure while processing one ticker (empty download, or an exception
\* in the download, the indicators, the simulation, the return calculation or
\* the plot) is caught and the ticker skipped: it never ends the program, the
\* loop goes on to every later ticker (and is never stuck before its end), and
\* the summary is printed.
C9_FailureSkipsOneAsset ==
    /\ skipped # {} => mpc # "crashed"
    /\ mpc \notin {"done", "crashed"} => ENABLED NextMain
    /\ mpc \in {"done", "crashed"} => t = number_of_tickers + 1
    /\ mpc = "done" =>
          /\ summary.printed
          /\ \A tk \in Tickers : tk \in skipped \/ tk \in transactions_dict

\* The summary is printed after an earlier ticker was skipped and a later one
\* went through to its plot.
C9_Witness ==
    /\ mpc = "done"
    /\ \E a \in skipped, b \in transactions_dict : a < b /\ b \notin skipped

\* The journal at hand has no first transaction, or one worth 0.
ZeroBase(txns) == txns = << >> \/ initial_stock_value(txns) = 0

\* C10 (as claimed): when there is no first transaction, or its
\* price * quantity is 0, the return calculation raises nothing and reports
\* the ticker's stock_return_percent as NaN.
C10_ZeroBaseReturnIsNaN ==
    [][ (mpc = "returns" /\ ZeroBase(cur.transactions))
        => /\ mpc' = "plot"
           /\ individual_stock_return'[t] = NanRet ]_vars

\* C11: when no trade was counted over all the tickers the summary's
\* success_rate is 0, computed without a division (the denominator is not 0);
\* otherwise it is successful_trades_all / total_trades_all * 100.
C11_SuccessRate ==
    mpc = "done" =>
        /\ summary.success_rate.kind = "num"
        /\ summary.success_rate.den # 0
        /\ summary.total_trades = total_trades_all
        /\ total_trades_all = 0 => summary.success_rate.num = 0
        /\ total_trades_all > 0 =>
              summary.success_rate.num * total_trades_all
                  = successful_trades_all * 100 * summary.success_rate.den

\* The summary of a session in which a ticker was simulated and plotted and no
\* ticker sold anything.
C11_Witness ==
    /\ mpc = "done"
    /\ transactions_dict # {}
    /\ total_trades_all = 0

\* The Sell rows of the journal, and for a row the Buy rows before it.
Sells == { j \in 1 .. Len(transactions) : transactions[j].Action = "Sell" }
PrecedingBuys(j) == { l \in 1 .. j - 1 : transactions[l].Action = "Buy" }
PrecedingBuy(j) == CHOOSE l \in PrecedingBuys(j) : \A m \in PrecedingBuys(j) : m <= l

\* The Sell rows whose price is strictly above that of the latest Buy before them.
SuccessfulSells ==
    { j \in Sells : /\ PrecedingBuys(j) # {}
                    /\ transactions[j].Price > transactions[PrecedingBuy(j)].Price }

C13_BuysMaximumWholeShares ==
    [][ (/\ pc = "loop"
         /\ i <= Len(data.Close)
         /\ data.Buy_Condition[i]
         /\ cash > 0
         /\ last_action # "Buy")
        => /\ stock_quantity' * data.Close[i] <= cash
           /\ cash < (stock_quantity' + 1) * data.Close[i]
           /\ cash' = cash - stock_quantity' * data.Close[i]
           /\ 0 <= cash'
           /\ cash' < data.Close[i]
           /\ Len(transactions') = Len(transactions) + 1
           /\ SubSeq(transactions', 1, Len(transactions)) = transactions
           /\ transactions'[Len(transactions')].Date = i
           /\ transactions'[Len(transactions')].Action = "Buy"
           /\ transactions'[Len(transactions')].Price = data.Close[i]
           /\ transactions'[Len(transactions')].Quantity = stock_quantity'
           /\ transactions'[Len(transactions')].Cash = cash' ]_vars

\* The run has just bought at a close that does not divide its cash: it holds
\* shares and a remainder smaller than the close.
C13_Witness ==
    /\ pc = "loop"
    /\ transactions # << >>
    /\ transactions[Len(transactions)].Action = "Buy"
    /\ transactions[Len(transactions)].Date = i - 1
    /\ stock_quantity > 0
    /\ cash > 0
    /\ cash < data.Close[i - 1]

\* C14: at a bar where neither guard holds, i.e. not (buy condition and
\* cash > 0 and last action not Buy) and not (sell condition and quantity > 0
\* and last action not Sell), the cash, the quantity, last_action,
\* last_buy_price, the two counters and the journal are unchanged, and in the
\* frame only that bar's Portfolio_Value is written.
C14_IdleBarChangesNothing ==
    [][ (/\ pc = "loop"
         /\ i <= Len(data.Close)
         /\ ~(data.Buy_Condition[i] /\ cash > 0 /\ last_action # "Buy")
         /\ ~(data.Sell_Condition[i] /\ stock_quantity > 0 /\ last_action # "Sell"))
        => /\ UNCHANGED <<cash, stock_quantity, last_action, last_buy_price,
                          total_trades, successful_trades, transactions>>
           /\ data' = [data EXCEPT !.Portfolio_Value[i] = data'.Portfolio_Value[i]]
           /\ i' = i + 1 ]_vars

\* The run has just passed a bar whose sell condition held while it owned
\* nothing: no transaction so far, and the bar has its portfolio value.
C14_Witness ==
    /\ pc = "loop"
    /\ i - 1 \in Processed
    /\ data.Sell_Condition[i - 1]
    /\ transactions = << >>
    /\ cash = initial_cash
    /\ data.Portfolio_Value[i - 1] = cash
    /\ cash > 0

\* All four indicators the evaluator reads are defined at bar k.
AllDefinedAt(k) ==
    /\ data.PLUS_DI[k] # NaN
    /\ data.MINUS_DI[k] # NaN
    /\ data.MACD[k] # NaN
    /\ data.MACDSignal[k] # NaN

\* C15 (as claimed): the run starts at the first bar at which PLUS_DI,
\* MINUS_DI, MACD and MACDSignal are all defined.
C15_StartsWhereAllIndicatorsDefined ==
    pc \in {"loop", "returned"} =>
        /\ start_index \in Bars
        /\ AllDefinedAt(start_index)
        /\ \A k \in 1 .. start_index - 1 : ~AllDefinedAt(k)

\* Both DI columns have had a defined value at bar k or before it.
BothDISeenBy(k) ==
    /\ \E j \in 1 .. k : data.PLUS_DI[j] # NaN
    /\ \E j \in 1 .. k : data.MINUS_DI[j] # NaN

C15_StartAndRange ==
    pc \in {"loop", "returned"} =>
        /\ start_index \in Bars
        /\ BothDISeenBy(start_index)
        /\ \A k \in 1 .. start_index - 1 : ~BothDISeenBy(k)
        /\ start_index <= i
        /\ i <= Len(data.Close) + 1
        /\ pc = "returned" => i = Len(data.Close) + 1
        /\ \A j \in 1 .. Len(transactions) : transactions[j].Date \in start_index .. i - 1
        /\ \A k \in Bars \ (start_index .. i - 1) :
              /\ data.Portfolio_Value[k] = 0
              /\ data.Buy_Signal[k] = 0
              /\ data.Sell_Signal[k] = 0

C15_OneBarPerIteration ==
    /\ (pc = "call" /\ pc' = "loop") => i' = start_index'
    /\ (pc = "loop" /\ pc' = "loop") =>
          /\ i \in Bars
          /\ i' = i + 1
          /\ start_index' = start_index
          /\ \A k \in Bars \ {i} : data'.Portfolio_Value[k] = data.Portfolio_Value[k]
          /\ \A j \in Len(transactions) + 1 .. Len(transactions') :
                transactions'[j].Date = i

\* C15 (amended): the run starts at the later of the first defined positions
\* of PLUS_DI and MINUS_DI (MACD and MACDSignal are not consulted and may be
\* undefined there), processes exactly the bars from the start index to the
\* last one, each once and in ascending order, and no bar before the start
\* index gets a transaction, a signal mark or a portfolio value.
C15_StartsAtLaterDIBoundary == []C15_StartAndRange /\ [][C15_OneBarPerIteration]_vars

\* A finished run that started after its first bar, at a bar where PLUS_DI
\* became defined later than MINUS_DI and MACD is still undefined.
C15_Witness ==
    /\ pc = "returned"
    /\ start_index > 1
    /\ data.MINUS_DI[start_index - 1] # NaN
    /\ data.PLUS_DI[start_index - 1] = NaN
    /\ data.MACD[start_index] = NaN

\* C16: a buy or a sell does not change the portfolio value at that bar's
\* close: the Portfolio_Value of the appended row is cash + quantity * close
\* taken just before the action, and equals that taken just after; a Buy
\* row's Portfolio_Value is the cash held before the buy, a Sell row's is its
\* Cash, with Quantity 0.
C16_TransactionKeepsValue ==
    [][ (pc = "loop" /\ Len(transactions') = Len(transactions) + 1)
        => LET row == transactions'[Len(transactions')]
               close_price == data.Close[i]
           IN /\ row.Date = i
              /\ row.Portfolio_Value = cash + stock_quantity * close_price
              /\ row.Portfolio_Value = cash' + stock_quantity' * close_price
              /\ row.Action = "Buy" => row.Portfolio_Value = cash
              /\ row.Action = "Sell" => /\ row.Portfolio_Value = row.Cash
                                        /\ row.Quantity = 0 ]_vars

\* A finished run that bought shares and sold them at another close: the two
\* rows carry different portfolio values.
C16_Witness ==
    /\ pc = "returned"
    /\ Len(transactions) = 2
    /\ transactions[1].Quantity > 0
    /\ transactions[2].Action = "Sell"
    /\ transactions[2].Price # transactions[1].Price
    /\ transactions[2].Portfolio_Value # transactions[1].Portfolio_Value

\* C17 (as claimed): after every bar stock_quantity > 0 exactly when
\* last_action is Buy, and stock_quantity = 0 exactly when last_action is None
\* or Sell; so a run that owns nothing and has cash is never kept from buying
\* by last_action.
C17_QuantityMatchesLastAction ==
    pc \in {"loop", "returned"} =>
        /\ stock_quantity > 0 <=> last_action = "Buy"
        /\ stock_quantity = 0 <=> last_action \in {None, "Sell"}
        /\ (stock_quantity = 0 /\ cash > 0) => last_action # "Buy"

\* C18 (as claimed): for a run with at least one transaction, the final value
\* main takes (the Portfolio_Value of the last row of the journal) is the
\* portfolio value recorded for the last bar, also when the run ends holding
\* shares.
C18_FinalValueIsLastBarValue ==
    (mpc = "returns" /\ cur.transactions # << >>) =>
        final_stock_value(cur.transactions)
            = cur.Portfolio_Value[Len(cur.Portfolio_Value)]

\* C19 (as claimed): the summary's total_return_percent is taken over one set
\* of tickers: the initial investments in its denominator are those of the
\* tickers whose final values were added to total_portfolio_value, a skipped
\* ticker adding to neither.
C19_ReturnOverOneSetOfAssets ==
    mpc = "done" =>
        LET invested == initial_investment_per_stock * Cardinality(transactions_dict)
        IN /\ summary.total_return_percent.den = invested
           /\ summary.total_return_percent.num
                  = (summary.total_portfolio_value - invested) * 100

====
